---------------------------- MODULE Spec2Model ----------------------------
(***************************************************************************)
(* Nonlinear_Solver_GUI: the two solve tabs of gui/tabs.py and the         *)
(* numerical core they call (utils.validation, utils.config,               *)
(* solvers.equations, solvers.systems).                                    *)
(*                                                                         *)
(* gui/tabs.py is translated from its source.  The numerical core is not   *)
(* among the source files; it is modelled from the component design of     *)
(* the specification (sections 4.1 - 4.6, 6 and 7).                        *)
(*                                                                         *)
(* A number is a Python float, an IEEE 754 binary64: NaN, plus or minus    *)
(* infinity, or a finite value (-1)^s * m * 2^e with a sign, zeros         *)
(* included.  Every operation gives the exact result rounded to 53 bits,   *)
(* ties to even, with gradual underflow and overflow to infinity.          *)
(*                                                                         *)
(* A text is the tuple of the code points of its characters.               *)
(***************************************************************************)
EXTENDS Integers, Sequences, FiniteSets, TLC

(***************************************************************************)
(* Bounds of the model.                                                    *)
(***************************************************************************)

\* The solver loops have no iteration cap (specification 4.2 and 9: "the
\* original methods have no explicit iteration cap"), so a call may run for
\* ever.  The model follows a call for this many iterations and no further.
MaxIter == 3

(***************************************************************************)
(* Natural numbers of any size, for the significands of the floats and     *)
(* the decimal numerals: the sequence of the limbs, the least significant  *)
(* first, without a zero limb on top.  <<>> is 0.                          *)
(***************************************************************************)

LimbBits == 15
Base == 32768

Least(S) == CHOOSE m \in S : \A o \in S : m <= o
Greatest(S) == CHOOSE m \in S : \A o \in S : o <= m
Max(m, n) == IF m < n THEN n ELSE m
Min(m, n) == IF m < n THEN m ELSE n

RECURSIVE Pow2(_)
Pow2(k) == IF k = 0 THEN 1 ELSE 2 * Pow2(k - 1)

Limb(x, i) == IF i <= Len(x) THEN x[i] ELSE 0

\* x without the zero limbs on top.
Trim(x) ==
    IF x = <<>> \/ x[Len(x)] # 0 THEN x
    ELSE LET used == {i \in 1..Len(x) : x[i] # 0}
         IN  IF used = {} THEN <<>> ELSE SubSeq(x, 1, Greatest(used))

\* The natural number n < 2^31.
RECURSIVE Big(_)
Big(n) == IF n = 0 THEN <<>> ELSE <<n % Base>> \o Big(n \div Base)

\* The value of a number below 2^31.
RECURSIVE Small(_)
Small(x) == IF x = <<>> THEN 0 ELSE x[1] + Base * Small(Tail(x))

\* The limbs lo..hi of x + y with the carry c coming in, and the carry
\* going out.  (The range is halved, here and below, to keep the recursion
\* shallow.)
RECURSIVE AddRange(_, _, _, _, _)
AddRange(x, y, lo, hi, c) ==
    IF lo > hi THEN [s |-> <<>>, c |-> c]
    ELSE IF lo = hi
         THEN LET t == Limb(x, lo) + Limb(y, lo) + c
              IN  [s |-> <<t % Base>>, c |-> t \div Base]
    ELSE LET mid == (lo + hi) \div 2
             low == AddRange(x, y, lo, mid, c)
             high == AddRange(x, y, mid + 1, hi, low.c)
         IN  [s |-> low.s \o high.s, c |-> high.c]

\* The limbs r.s with the carry r.c on top of them, if there is one.
WithCarry(r) == IF r.c = 0 THEN r.s ELSE Append(r.s, r.c)

\* x + y
BigAdd(x, y) == WithCarry(AddRange(x, y, 1, Max(Len(x), Len(y)), 0))

\* The limbs lo..hi of x - y with the borrow b coming in, and the borrow
\* going out.
RECURSIVE SubRange(_, _, _, _, _)
SubRange(x, y, lo, hi, b) ==
    IF lo > hi THEN [s |-> <<>>, b |-> b]
    ELSE IF lo = hi
         THEN LET t == x[lo] - Limb(y, lo) - b
              IN  [s |-> <<t % Base>>, b |-> IF t < 0 THEN 1 ELSE 0]
    ELSE LET mid == (lo + hi) \div 2
             low == SubRange(x, y, lo, mid, b)
             high == SubRange(x, y, mid + 1, hi, low.b)
         IN  [s |-> low.s \o high.s, b |-> high.b]

\* x - y for x >= y
BigSub(x, y) == Trim(SubRange(x, y, 1, Len(x), 0).s)

\* -1, 0 or 1 as x < y, x = y or x > y.
BigCmp(x, y) ==
    IF Len(x) # Len(y) THEN (IF Len(x) < Len(y) THEN -1 ELSE 1)
    ELSE LET differ == {i \in 1..Len(x) : x[i] # y[i]}
         IN  IF differ = {} THEN 0
             ELSE IF x[Greatest(differ)] < y[Greatest(differ)] THEN -1
             ELSE 1

\* The limbs lo..hi of x * m with the carry c coming in, and the carry
\* going out.
RECURSIVE MulRange(_, _, _, _, _)
MulRange(x, m, lo, hi, c) ==
    IF lo > hi THEN [s |-> <<>>, c |-> c]
    ELSE IF lo = hi
         THEN LET p == x[lo] * m + c
              IN  [s |-> <<p % Base>>, c |-> p \div Base]
    ELSE LET mid == (lo + hi) \div 2
             low == MulRange(x, m, lo, mid, c)
             high == MulRange(x, m, mid + 1, hi, low.c)
         IN  [s |-> low.s \o high.s, c |-> high.c]

\* x * m for 0 <= m <= Base
BigMulSmall(x, m) ==
    IF m = 0 THEN <<>> ELSE WithCarry(MulRange(x, m, 1, Len(x), 0))

\* x * Base^n
ShiftLimbs(x, n) == IF x = <<>> THEN <<>> ELSE [i \in 1..n |-> 0] \o x

\* x times the limbs lo..hi of y.
RECURSIVE MulLimbs(_, _, _, _)
MulLimbs(x, y, lo, hi) ==
    IF lo = hi THEN BigMulSmall(x, y[lo])
    ELSE LET mid == (lo + hi) \div 2
         IN  BigAdd(MulLimbs(x, y, lo, mid),
                    ShiftLimbs(MulLimbs(x, y, mid + 1, hi), mid + 1 - lo))

\* x * y
BigMul(x, y) ==
    IF x = <<>> \/ y = <<>> THEN <<>>
    ELSE MulLimbs(IF Len(x) < Len(y) THEN y ELSE x,
                  IF Len(x) < Len(y) THEN x ELSE y, 1, Min(Len(x), Len(y)))

\* x * 2^k
Shl(x, k) ==
    ShiftLimbs(BigMulSmall(x, Pow2(k % LimbBits)), k \div LimbBits)

\* floor(x / 2^k)
Shr(x, k) ==
    LET n == k \div LimbBits
        b == Pow2(k % LimbBits)
    IN  Trim([i \in 1..(Len(x) - n) |->
                 (x[i + n] \div b) + (Limb(x, i + n + 1) % b) * (Base \div b)])

\* The number of bits of n < Base.
RECURSIVE SmallBitLen(_)
SmallBitLen(n) == IF n = 0 THEN 0 ELSE 1 + SmallBitLen(n \div 2)

\* The number of bits of x.
BitLen(x) ==
    IF x = <<>> THEN 0
    ELSE LimbBits * (Len(x) - 1) + SmallBitLen(x[Len(x)])

\* Bit k of x, bit 0 the lowest.
Bit(x, k) == (Limb(x, k \div LimbBits + 1) \div Pow2(k % LimbBits)) % 2

\* Whether the k lowest bits of x are zero.
LowZero(x, k) ==
    /\ \A i \in 1..(k \div LimbBits) : Limb(x, i) = 0
    /\ Limb(x, k \div LimbBits + 1) % Pow2(k % LimbBits) = 0

\* The number of zero bits at the low end of x # 0.
TrailingZeros(x) ==
    LET i == Least({j \in 1..Len(x) : x[j] # 0})
    IN  LimbBits * (i - 1)
           + Least({k \in 0..(LimbBits - 1) : (x[i] \div Pow2(k)) % 2 = 1})

\* x with the limbs in the opposite order.
Reverse(x) == [i \in 1..Len(x) |-> x[Len(x) + 1 - i]]

\* The limbs lo..hi of x divided by m, 1 <= m <= Base, with the remainder
\* r coming in from above: the limbs of the quotient, the most significant
\* first, and the remainder.
RECURSIVE DivSmallRange(_, _, _, _, _)
DivSmallRange(x, m, lo, hi, r) ==
    IF lo > hi THEN [q |-> <<>>, r |-> r]
    ELSE IF lo = hi
         THEN [q |-> <<(r * Base + x[lo]) \div m>>,
               r |-> (r * Base + x[lo]) % m]
    ELSE LET mid == (lo + hi) \div 2
             high == DivSmallRange(x, m, mid + 1, hi, r)
             low == DivSmallRange(x, m, lo, mid, high.r)
         IN  [q |-> high.q \o low.q, r |-> low.r]

\* The quotient and the remainder of a long division, the limbs of the
\* quotient put in their order and the remainder divided by 2^s.
DivResult(d, s) == [q |-> Trim(Reverse(d.q)), r |-> Shr(d.r, s)]

\* x divided by m, 1 <= m <= Base: the quotient and the remainder.
BigDivSmall(x, m) ==
    LET d == DivSmallRange(x, m, 1, Len(x), 0)
    IN  [q |-> Trim(Reverse(d.q)), r |-> d.r]

\* One step of the long division by d, whose top limb is at least Base / 2:
\* the quotient digit of r < d * Base, found from the two top limbs and
\* corrected downwards.
RECURSIVE QuotientDigit(_, _, _)
QuotientDigit(r, d, q) ==
    IF BigCmp(BigMulSmall(d, q), r) > 0 THEN QuotientDigit(r, d, q - 1) ELSE q

\* The limbs lo..hi of n divided by d, with the remainder r < d coming in
\* from above: the limbs of the quotient, the most significant first, and
\* the remainder.
\* The quotient digit q of r by d, and what is left of r.
DivTake(r, d, q) == [q |-> <<q>>, r |-> BigSub(r, BigMulSmall(d, q))]

\* r < d * Base divided by d: the quotient digit and the remainder.
DivLimb(r, d) ==
    DivTake(r, d,
            QuotientDigit(r, d,
                          Min(Base - 1,
                              (Limb(r, Len(d) + 1) * Base + Limb(r, Len(d)))
                                 \div d[Len(d)])))

RECURSIVE DivRange(_, _, _, _, _)
DivRange(n, d, lo, hi, r) ==
    IF lo > hi THEN [q |-> <<>>, r |-> r]
    ELSE IF lo = hi THEN DivLimb(Trim(<<n[lo]>> \o r), d)
    ELSE LET mid == (lo + hi) \div 2
             high == DivRange(n, d, mid + 1, hi, r)
             low == DivRange(n, d, lo, mid, high.r)
         IN  [q |-> high.q \o low.q, r |-> low.r]

\* n divided by d # 0: the quotient and the remainder.
\* n divided by d, both multiplied by 2^s to bring the top limb of d to
\* Base / 2 at least.
DivNormal(n, d, s) == DivResult(DivRange(n, d, 1, Len(n), <<>>), s)

\* n divided by d # 0: the quotient and the remainder.
BigDivMod(n, d) ==
    DivNormal(Shl(n, LimbBits - SmallBitLen(d[Len(d)])),
              Shl(d, LimbBits - SmallBitLen(d[Len(d)])),
              LimbBits - SmallBitLen(d[Len(d)]))

\* 10^k
RECURSIVE BigPow10(_)
BigPow10(k) ==
    IF k = 0 THEN <<1>>
    ELSE IF k % 2 = 1 THEN BigMulSmall(BigPow10(k - 1), 10)
    ELSE LET h == BigPow10(k \div 2) IN BigMul(h, h)

\* The decimal digit of x that counts 10^i.
DecimalDigit(x, i) == BigDivSmall(BigDivMod(x, BigPow10(i)).q, 10).r

\* The digits ds without the zeros in front.
DropZeros(ds) ==
    LET used == {i \in 1..Len(ds) : ds[i] # 0}
    IN  IF used = {} THEN <<>> ELSE SubSeq(ds, Least(used), Len(ds))

\* The n lowest decimal digits of x, the most significant first.
LowDigits(x, n) == [i \in 1..n |-> DecimalDigit(x, n - i)]

\* The decimal digits of x, the most significant first; none for 0.
BigDigits(x) == DropZeros(LowDigits(x, (BitLen(x) * 30103) \div 100000 + 1))

(***************************************************************************)
(* Python floats.  A finite float is the sign s (1 for minus), the         *)
(* significand m, odd or zero, and the exponent e: (-1)^s * m * 2^e.       *)
(***************************************************************************)

\* The widths of a binary64: the bits of the significand, the exponent of
\* the largest power of two, of the smallest normal one and of the last
\* bit of a subnormal.
Precision == 53
MaxExponent == 1023
MinExponent == -1022
MinBitExponent == -1074

NaN == [k |-> "nan", s |-> 0, m |-> <<>>, e |-> 0]

\* float("inf") for s = 1, float("-inf") for s = -1.
Inf(s) == [k |-> "inf", s |-> IF s < 0 THEN 1 ELSE 0, m |-> <<>>, e |-> 0]

\* 0.0 for s = 0, -0.0 for s = 1.
SignedZero(s) == [k |-> "fin", s |-> s, m |-> <<>>, e |-> 0]

IsNaN(x) == x.k = "nan"
IsInf(x) == x.k = "inf"
IsFinite(x) == x.k = "fin"
IsZero(x) == x.k = "fin" /\ x.m = <<>>

\* The float (-1)^s * m * 2^e of an odd m that needs no rounding: infinity
\* when it is too large.
Finite(s, m, e) ==
    IF BitLen(m) + e - 1 > MaxExponent THEN Inf(IF s = 1 THEN -1 ELSE 1)
    ELSE [k |-> "fin", s |-> s, m |-> m, e |-> e]

\* The same for a significand M that may be even, with z zero bits at its
\* low end.
Odd(s, M, E, z) == Finite(s, Shr(M, z), E + z)

\* The float (-1)^s * M * 2^E of a value that needs no rounding.
Exact(s, M, E) ==
    IF M = <<>> THEN SignedZero(s) ELSE Odd(s, M, E, TrailingZeros(M))

\* q or q + 1: the nearer of the two to a value that lies between them, by
\* whether the value reaches the half between them and whether it exceeds
\* that half; the even one when it is the half.
NearestEven(q, half, more) ==
    IF half /\ (more \/ Bit(q, 0) = 1) THEN BigAdd(q, <<1>>) ELSE q

\* M / 2^cut rounded to the nearest integer, ties to the even one.
ShrEven(M, cut) ==
    NearestEven(Shr(M, cut), Bit(M, cut - 1) = 1, ~LowZero(M, cut - 1))

\* The float nearest to (-1)^s * M * 2^E, ties to the even significand:
\* 53 bits are kept, fewer below the smallest normal float.
Round(s, M, E) ==
    LET L == BitLen(M)
        t == L + E - 1
        p == IF t >= MinExponent THEN Precision ELSE t - MinBitExponent + 1
        cut == L - p
    IN  Exact(s, IF cut <= 0 THEN M ELSE ShrEven(M, cut),
              IF cut <= 0 THEN E ELSE E + cut)

\* float(n) for an integer n.
Num(n) == Exact(IF n < 0 THEN 1 ELSE 0, Big(IF n < 0 THEN -n ELSE n), 0)

Zero == SignedZero(0)

\* -1, 0 or 1; 0 for NaN and for both zeros.
Sign(x) ==
    IF IsNaN(x) \/ IsZero(x) THEN 0 ELSE IF x.s = 1 THEN -1 ELSE 1

\* -x
Neg(x) == IF IsNaN(x) THEN x ELSE [x EXCEPT !.s = 1 - x.s]

\* abs(x)
abs(x) == [x EXCEPT !.s = 0]

\* The exact value (-1)^s * M * 2^E of a sum, before it is rounded.
Sum(s, M, E) == [s |-> s, M |-> M, E |-> E]

\* X with a last bit added to it or taken from it.
Nudge(X, up) == IF up THEN BigAdd(X, <<1>>) ELSE BigSub(X, <<1>>)

\* x + y for finite x and y of which x is so much the larger that y only
\* decides to which side the sum is rounded.
AddFar(x, y) ==
    Sum(x.s, Nudge(Shl(x.m, Precision + 6 - BitLen(x.m)), x.s = y.s),
        x.e - (Precision + 6 - BitLen(x.m)))

\* X * 2^e + Y * 2^e with the signs of x and y, where c compares X with Y.
AddAligned(x, y, X, Y, e, c) ==
    IF x.s = y.s THEN Sum(x.s, BigAdd(X, Y), e)
    ELSE Sum(IF c = 0 THEN 0 ELSE IF c > 0 THEN x.s ELSE y.s,
             BigSub(IF c > 0 THEN X ELSE Y, IF c > 0 THEN Y ELSE X), e)

\* x + y for finite x and y of comparable size.
AddNear(x, y, X, Y, e) == AddAligned(x, y, X, Y, e, BigCmp(X, Y))

\* The float nearest to a sum.
RoundSum(t) == Round(t.s, t.M, t.E)

\* The position of the top bit of a finite x # 0.
TopBit(x) == BitLen(x.m) + x.e

\* x + y for finite x and y.
AddFinite(x, y) ==
    IF IsZero(x) /\ IsZero(y)
    THEN SignedZero(IF x.s = 1 /\ y.s = 1 THEN 1 ELSE 0)
    ELSE IF IsZero(x) THEN y
    ELSE IF IsZero(y) THEN x
    ELSE RoundSum(IF TopBit(x) - TopBit(y) > 2 * Precision
                     \/ TopBit(y) - TopBit(x) > 2 * Precision
                  THEN AddFar(IF TopBit(x) > TopBit(y) THEN x ELSE y,
                              IF TopBit(x) > TopBit(y) THEN y ELSE x)
                  ELSE AddNear(x, y, Shl(x.m, x.e - Min(x.e, y.e)),
                               Shl(y.m, y.e - Min(x.e, y.e)), Min(x.e, y.e)))

\* x + y
Add(x, y) ==
    IF IsNaN(x) \/ IsNaN(y) THEN NaN
    ELSE IF IsInf(x) /\ IsInf(y) THEN (IF x.s = y.s THEN x ELSE NaN)
    ELSE IF IsInf(x) THEN x
    ELSE IF IsInf(y) THEN y
    ELSE AddFinite(x, y)

\* x - y
Sub(x, y) == Add(x, Neg(y))

\* The sign of a product or a quotient of x and y.
SignOf(x, y) == IF x.s = y.s THEN 0 ELSE 1

\* x * y
Mul(x, y) ==
    IF IsNaN(x) \/ IsNaN(y) THEN NaN
    ELSE IF IsInf(x) \/ IsInf(y)
         THEN (IF IsZero(x) \/ IsZero(y) THEN NaN
               ELSE Inf(Sign(x) * Sign(y)))
    ELSE Round(SignOf(x, y), BigMul(x.m, y.m), x.e + y.e)

\* The float nearest to (-1)^s * (2 q + rest) * 2^E, where rest, below 1, is
\* zero when the division left no remainder.
RoundQuotient(s, qr, E) ==
    Round(s, BigAdd(Shl(qr.q, 1), IF qr.r = <<>> THEN <<>> ELSE <<1>>), E)

\* M / D for M, D # 0, as a float of the sign s: the quotient is worked out
\* to three bits more than a float holds, and a bit that says whether
\* anything is left.
Quotient(s, M, D, E) ==
    LET k == Max(0, Precision + 3 + BitLen(D) - BitLen(M))
    IN  RoundQuotient(s, BigDivMod(Shl(M, k), D), E - k - 1)

\* x / y for y # 0.  (Python raises ZeroDivisionError for y == 0; every
\* division of the model is by a constant or behind a test of the divisor.)
Div(x, y) ==
    IF IsNaN(x) \/ IsNaN(y) THEN NaN
    ELSE IF IsInf(y)
         THEN (IF IsInf(x) THEN NaN ELSE SignedZero(SignOf(x, y)))
    ELSE IF IsInf(x) THEN Inf(IF SignOf(x, y) = 1 THEN -1 ELSE 1)
    ELSE IF IsZero(x) THEN SignedZero(SignOf(x, y))
    ELSE Quotient(SignOf(x, y), x.m, y.m, x.e - y.e)

\* -1, 0 or 1 as |x| < |y|, |x| = |y| or |x| > |y|, for finite x and y.
CmpMagnitude(x, y) ==
    IF IsZero(x) \/ IsZero(y)
    THEN (IF IsZero(x) /\ IsZero(y) THEN 0 ELSE IF IsZero(x) THEN -1 ELSE 1)
    ELSE LET tx == BitLen(x.m) + x.e
             ty == BitLen(y.m) + y.e
             e == Min(x.e, y.e)
         IN  IF tx # ty THEN (IF tx < ty THEN -1 ELSE 1)
             ELSE BigCmp(Shl(x.m, x.e - e), Shl(y.m, y.e - e))

\* -1, 0 or 1 as x < y, x == y or x > y, for x and y that are not NaN.
Cmp(x, y) ==
    IF Sign(x) # Sign(y) THEN (IF Sign(x) < Sign(y) THEN -1 ELSE 1)
    ELSE IF Sign(x) = 0 THEN 0
    ELSE IF IsInf(x) \/ IsInf(y)
         THEN (IF IsInf(x) /\ IsInf(y) THEN 0
               ELSE IF IsInf(x) THEN Sign(x) ELSE -Sign(x))
    ELSE Sign(x) * CmpMagnitude(x, y)

\* x < y, x == y, x <= y, x > y, x >= y
Lt(x, y) == ~IsNaN(x) /\ ~IsNaN(y) /\ Cmp(x, y) < 0
Eq(x, y) == ~IsNaN(x) /\ ~IsNaN(y) /\ Cmp(x, y) = 0
Le(x, y) == ~IsNaN(x) /\ ~IsNaN(y) /\ Cmp(x, y) <= 0
Gt(x, y) == Lt(y, x)
Ge(x, y) == Le(y, x)

(***************************************************************************)
(* float(text), lines 71 - 73 and 158 - 160: surrounding whitespace is     *)
(* dropped; then an optional sign and "nan", "inf" or "infinity" in any    *)
(* case, or a decimal numeral: digits, optionally a point and digits,      *)
(* optionally an exponent.  A digit is a decimal digit of any script.      *)
(* Digits may be grouped with single underscores.  Anything else is a      *)
(* ValueError.  The value is the float nearest to the numeral.             *)
(***************************************************************************)

\* The characters float() ignores around the numeral.
Space ==
    {9, 10, 11, 12, 13, 32, 133, 160, 5760, 8232, 8233, 8239, 8287, 12288}
       \cup 8192..8202

\* The digit zero of every script that has decimal digits (Unicode 14);
\* the digits one to nine follow it.
DigitZeros ==
    {48, 1632, 1776, 1984, 2406, 2534, 2662, 2790, 2918, 3046, 3174, 3302,
     3430, 3558, 3664, 3792, 3872, 4160, 4240, 6112, 6160, 6470, 6608, 6784,
     6800, 6992, 7088, 7232, 7248, 42528, 43216, 43264, 43472, 43504, 43600,
     44016, 65296, 66720, 68912, 69734, 69872, 69942, 70096, 70384, 70736,
     70864, 71248, 71360, 71472, 71904, 72016, 72784, 73040, 73120, 92768,
     92864, 93008, 120782, 120792, 120802, 120812, 120822, 123200, 123632,
     125264, 130032}

\* "+", "-", ".", "_", "E", "e"
Plus == 43
Minus == 45
Point == 46
Underscore == 95
UpperE == 69
LowerE == 101

\* "nan", "inf", "infinity"
NanWord == <<110, 97, 110>>
InfWord == <<105, 110, 102>>
InfinityWord == <<105, 110, 102, 105, 110, 105, 116, 121>>

IsDigit(c) == \E z \in DigitZeros : c \in z..(z + 9)
DigitValue(c) == c - (CHOOSE z \in DigitZeros : c \in z..(z + 9))

\* The lower case of an ASCII letter.
Lower(c) == IF c \in 65..90 THEN c + 32 ELSE c

lower(s) == [i \in 1..Len(s) |-> Lower(s[i])]

\* The text without the blanks around it.
strip(s) ==
    LET inner == {i \in 1..Len(s) : s[i] \notin Space}
    IN  IF inner = {} THEN <<>> ELSE SubSeq(s, Least(inner), Greatest(inner))

\* The first position of s that holds a character of C, or 0.
First(s, C) ==
    LET at == {i \in 1..Len(s) : s[i] \in C}
    IN  IF at = {} THEN 0 ELSE Least(at)

\* Digits, with single underscores between digits only.
DigitGroup(s) ==
    /\ s # <<>>
    /\ IsDigit(s[1])
    /\ IsDigit(s[Len(s)])
    /\ \A i \in 1..Len(s) :
          \/ IsDigit(s[i])
          \/ s[i] = Underscore /\ IsDigit(s[i - 1]) /\ IsDigit(s[i + 1])

\* The digits of a digit group, without the underscores.
DigitsIn(s) == SelectSeq(s, IsDigit)

\* The number the digits lo..hi of s denote.
RECURSIVE DigitsRange(_, _, _)
DigitsRange(s, lo, hi) ==
    IF lo > hi THEN <<>>
    ELSE IF lo = hi THEN Big(DigitValue(s[lo]))
    ELSE LET mid == (lo + hi) \div 2
         IN  BigAdd(BigMul(DigitsRange(s, lo, mid), BigPow10(hi - mid)),
                    DigitsRange(s, mid + 1, hi))

\* The number a digit group denotes.
DigitsValue(s) == DigitsRange(DigitsIn(s), 1, Len(DigitsIn(s)))

\* An exponent from here on denotes infinity or zero whatever the digits
\* in front of it (in a text of fewer characters than this).
ExponentCap == 100000

\* The number the digit group of an exponent denotes, ExponentCap at most.
ExponentValue(s) ==
    LET ds == DigitsIn(s)
        used == {i \in 1..Len(ds) : DigitValue(ds[i]) # 0}
    IN  IF used = {} THEN 0
        ELSE IF Len(ds) - Least(used) >= 6 THEN ExponentCap
        ELSE Min(ExponentCap, Small(DigitsRange(ds, Least(used), Len(ds))))

CountDigits(s) == Len(DigitsIn(s))

\* 10^DecimalMax is above the largest float; 10^DecimalMin is below half
\* the smallest one.
DecimalMax == 309
DecimalMin == -324

\* The float nearest to (-1)^s * D * 10^ex, where D has at most nd digits.
Decimal(s, D, ex, nd) ==
    IF D = <<>> THEN SignedZero(s)
    ELSE IF ex >= DecimalMax THEN Inf(IF s = 1 THEN -1 ELSE 1)
    ELSE IF ex + nd <= DecimalMin THEN SignedZero(s)
    ELSE Quotient(s, BigMul(D, BigPow10(Max(0, ex))), BigPow10(Max(0, -ex)), 0)

\* The text before position i of s (all of s for i = 0) and the text
\* after it (none for i = 0).
Before(s, i) == IF i = 0 THEN s ELSE SubSeq(s, 1, i - 1)
After(s, i) == IF i = 0 THEN <<>> ELSE SubSeq(s, i + 1, Len(s))

\* Whether a text begins with a sign, the sign, and the text after it.
Signed(s) == s # <<>> /\ s[1] \in {Plus, Minus}
SignIn(s) == IF Signed(s) /\ s[1] = Minus THEN -1 ELSE 1
Unsigned(s) == IF Signed(s) THEN Tail(s) ELSE s

\* The numeral with the digits ip before the point and fp after it, and
\* the exponent esgn * edig; dotted and marked say whether the point and
\* the exponent marker are there.
Numeral(sgn, ip, fp, dotted, esgn, edig, marked) ==
    IF /\ ~marked \/ DigitGroup(edig)
       /\ IF ~dotted THEN DigitGroup(ip)
          ELSE /\ ip = <<>> \/ DigitGroup(ip)
               /\ fp = <<>> \/ DigitGroup(fp)
               /\ ip # <<>> \/ fp # <<>>
    THEN [ok |-> TRUE,
          v  |-> Decimal(IF sgn < 0 THEN 1 ELSE 0,
                         DigitsValue(ip \o fp),
                         esgn * ExponentValue(edig) - CountDigits(fp),
                         CountDigits(ip) + CountDigits(fp))]
    ELSE [ok |-> FALSE, v |-> Zero]

\* The numeral with the mantissa mant and the exponent expo.
Mantissa(sgn, mant, dot, expo, marked) ==
    Numeral(sgn, Before(mant, dot), After(mant, dot), dot # 0, SignIn(expo),
            Unsigned(expo), marked)

\* The numeral s with the exponent marker at e, if e # 0.
Marked(sgn, s, e) ==
    Mantissa(sgn, Before(s, e), First(Before(s, e), {Point}), After(s, e),
             e # 0)

\* A decimal numeral with the sign sgn in front of it.
ParseDecimal(s, sgn) == Marked(sgn, s, First(s, {LowerE, UpperE}))

\* float(text): the number the text denotes, or ValueError (ok = FALSE).
ParseFloat(t) ==
    LET s == strip(t)
        word == lower(Unsigned(s))
    IN  IF word = NanWord THEN [ok |-> TRUE, v |-> NaN]
        ELSE IF word \in {InfWord, InfinityWord}
             THEN [ok |-> TRUE, v |-> Inf(SignIn(s))]
        ELSE ParseDecimal(Unsigned(s), SignIn(s))

(***************************************************************************)
(* Number formatting of the result texts: f"{x:.6f}" and f"{fx:.2e}"       *)
(* (lines 104, 176 - 177 and 182).  Both print the decimal numeral nearest *)
(* to the float, ties to even.                                             *)
(***************************************************************************)

\* The characters of a sequence of digits.
DigitText(ds) == [i \in 1..Len(ds) |-> 48 + ds[i]]

\* The digits ds with zeros in front, n digits at least.
ZeroFill(ds, n) == [i \in 1..(n - Len(ds)) |-> 0] \o ds

\* "-" in front of a negative number.
SignText(x) == IF x.s = 1 THEN <<Minus>> ELSE <<>>

\* "nan", "inf" or "-inf"
NonFiniteText(x) == IF IsNaN(x) THEN NanWord ELSE SignText(x) \o InfWord

\* The digits ds with a point in front of the last n of them.
PointText(ds, n) ==
    DigitText(SubSeq(ds, 1, Len(ds) - n)) \o <<Point>>
       \o DigitText(SubSeq(ds, Len(ds) - n + 1, Len(ds)))

\* N * 2^e rounded to an integer, ties to the even one.
Scaled(N, e) == IF e >= 0 THEN Shl(N, e) ELSE ShrEven(N, -e)

\* f"{x:.6f}"
Format6f(x) ==
    IF ~IsFinite(x) THEN NonFiniteText(x)
    ELSE SignText(x)
            \o PointText(ZeroFill(BigDigits(Scaled(BigMul(x.m, BigPow10(6)),
                                                   x.e)),
                                   7),
                         6)

\* Whether N / D >= 10^d.
AtLeastPow10(N, D, d) ==
    BigCmp(BigMul(N, BigPow10(Max(0, -d))), BigMul(D, BigPow10(Max(0, d)))) >= 0

\* The d with 10^d <= N / D < 10^(d + 1), looked for from d on.
RECURSIVE Exponent10(_, _, _)
Exponent10(N, D, d) ==
    IF AtLeastPow10(N, D, d + 1) THEN Exponent10(N, D, d + 1)
    ELSE IF ~AtLeastPow10(N, D, d) THEN Exponent10(N, D, d - 1)
    ELSE d

\* The digits of an exponent n < 1000, two at least.
ExponentDigits(n) ==
    IF n >= 100 THEN <<n \div 100, (n \div 10) % 10, n % 10>>
    ELSE <<n \div 10, n % 10>>

\* The three digits mant with the point after the first, and the exponent.
ScientificText(mant, ex) ==
    <<48 + (mant \div 100), Point, 48 + ((mant \div 10) % 10),
      48 + (mant % 10), LowerE, IF ex < 0 THEN Minus ELSE Plus>>
       \o DigitText(ExponentDigits(IF ex < 0 THEN -ex ELSE ex))

\* R * 10^(d - 2), where R may have reached 1000 by rounding.
Scientific(R, d) ==
    ScientificText(IF R = 1000 THEN 100 ELSE R, IF R = 1000 THEN d + 1 ELSE d)

\* The quotient qr.q of a division by D rounded to the nearest integer,
\* ties to the even one, by the remainder qr.r.
NearestQuotient(qr, D) ==
    LET half == BigCmp(Shl(qr.r, 1), D)
    IN  Small(qr.q)
           + (IF half > 0 \/ (half = 0 /\ Bit(qr.q, 0) = 1) THEN 1 ELSE 0)

\* N / D in three digits.
ThreeDigits(N, D, d) == Scientific(NearestQuotient(BigDivMod(N, D), D), d)

\* N / D, which lies between 10^d and 10^(d + 1), in three digits.
ScientificAt(N, D, d) ==
    ThreeDigits(BigMul(N, BigPow10(Max(0, 2 - d))),
                BigMul(D, BigPow10(Max(0, d - 2))), d)

\* N / D, whose top bit counts 2^t, in three digits.
ScientificOf(N, D, t) ==
    ScientificAt(N, D, Exponent10(N, D, (t * 30103) \div 100000))

\* f"{x:.2e}"
Format2e(x) ==
    IF ~IsFinite(x) THEN NonFiniteText(x)
    ELSE IF IsZero(x)
         THEN SignText(x) \o <<48, Point, 48, 48, LowerE, Plus, 48, 48>>
    ELSE SignText(x)
            \o ScientificOf(IF x.e >= 0 THEN Shl(x.m, x.e) ELSE x.m,
                            IF x.e >= 0 THEN <<1>> ELSE Shl(<<1>>, -x.e),
                            BitLen(x.m) + x.e - 1)

(***************************************************************************)
(* Text typed in the QLineEdit fields.  a_input, b_input, x0_input and     *)
(* y0_input are empty after construction; eps_input holds "1e-6" (lines 36 *)
(* and 137).                                                               *)
(***************************************************************************)

\* What the user may have typed in a_input and b_input.
PointTexts ==
    {<<45, 50>>,            \* "-2"
     <<48>>,                \* "0"
     <<43, 50, 46, 48>>,    \* "+2.0"
     <<160, 52, 32>>,       \* "4" after a no-break space and before a blank
     <<110, 97, 110>>,      \* "nan"
     <<105, 110, 102>>,     \* "inf"
     <<>>,                  \* nothing
     <<97, 98, 99>>}        \* "abc"

\* What the user may have typed in x0_input and y0_input.
GuessTexts ==
    {<<48>>,                \* "0"
     <<45, 48>>,            \* "-0"
     <<50>>,                \* "2"
     <<1636>>,              \* "4" as the Arabic-Indic digit
     <<48, 46, 53>>,        \* "0.5"
     <<78, 97, 78>>,        \* "NaN"
     <<>>}                  \* nothing

\* What eps_input may hold.
EpsTexts ==
    {<<49, 101, 45, 54>>,   \* "1e-6"
     <<49>>,                \* "1"
     <<48>>,                \* "0"
     <<45, 49>>,            \* "-1"
     <<110, 97, 110>>,      \* "nan"
     <<73, 110, 102>>,      \* "Inf"
     <<49, 101>>}           \* "1e"

\* float() on the texts of the model, worked out once.
float == [t \in PointTexts \cup GuessTexts \cup EpsTexts |-> ParseFloat(t)]

\* The numbers float() makes of the texts of T.
Parsed(T) == {float[t].v : t \in {u \in T : float[u].ok}}

(***************************************************************************)
(* utils.config: the function registry (specification 4.6).                *)
(***************************************************************************)

\* EQUATIONS.keys(), in insertion order.
EquationNames == <<"x^2 - 4", "x^2 - 8">>

\* SYSTEMS.keys(), in insertion order.
SystemNames == <<"contracting", "expanding">>

\* EQUATIONS[name]["f"](x)
F(name, x) ==
    IF name = "x^2 - 4" THEN Sub(Mul(x, x), Num(4)) ELSE Sub(Mul(x, x), Num(8))

\* EQUATIONS[name]["df"](x)
DF(name, x) == Mul(Num(2), x)

\* EQUATIONS[name]["phi"](x): x / 2 + 1, which contracts to the root 2, and
\* x + (x^2 - 8), which does not converge.
Phi(name, x) ==
    IF name = "x^2 - 4" THEN Add(Div(x, Num(2)), Num(1)) ELSE Add(x, F(name, x))

\* SYSTEMS[name]["phi1"](x, y): y / 2 + 1, or 2 y.
Phi1(name, x, y) ==
    IF name = "contracting" THEN Add(Div(y, Num(2)), Num(1)) ELSE Mul(Num(2), y)

\* SYSTEMS[name]["phi2"](x, y): x / 4 + 1, or 2 x.
Phi2(name, x, y) ==
    IF name = "contracting" THEN Add(Div(x, Num(4)), Num(1)) ELSE Mul(Num(2), x)

(***************************************************************************)
(* utils.validation (specification 4.1).                                   *)
(***************************************************************************)

MsgOrder == "a must be less than b"
MsgNoSignChange == "f(a) * f(b) > 0: no sign change on [a, b]"
\* The text of line 75 and 162, transliterated.
MsgBadInput == "Nekorrektnyj vvod dannyh"

\* validate_interval(a, b, f) -> (is_valid, message)
validate_interval(a, b, name) ==
    IF Ge(a, b) THEN [is_valid |-> FALSE, msg |-> MsgOrder]
    ELSE IF Gt(Mul(F(name, a), F(name, b)), Zero)
         THEN [is_valid |-> FALSE, msg |-> MsgNoSignChange]
         ELSE [is_valid |-> TRUE, msg |-> ""]

(***************************************************************************)
(* Solver results (specification 6 and 7): a numeric result, or a failure  *)
(* of one of three kinds.                                                  *)
(***************************************************************************)

NoResult == [kind |-> "none", val |-> <<>>]
Success(v) == [kind |-> "ok", val |-> v]
Failure(k) == [kind |-> k, val |-> <<>>]
FailureKinds == {"InvalidInput", "DivisionByZero", "NonConvergence"}

\* The frame of a running solver: the bracket (a, b), the iterate (x, y),
\* the completed iterations, what the last iteration compared with eps
\* (the residual |f(x)|, or the step sizes) and the error history.
NoFrame ==
    [a |-> Zero, b |-> Zero, x |-> Zero, y |-> Zero, it |-> 0, err |-> <<>>,
     errors |-> <<>>]

\* A solver's defensive test of its tolerance, before any iteration.
RejectsEps(eps) == Le(eps, Zero)

(***************************************************************************)
(* solvers.equations.chord_method (specification 4.2): one iteration.      *)
(* Returns the frame after the iteration and the result, if it returned.   *)
(***************************************************************************)

\* x = a - f(a) * (b - a) / (f(b) - f(a))
ChordX(name, a, b) ==
    Sub(a, Div(Mul(F(name, a), Sub(b, a)), Sub(F(name, b), F(name, a))))

ChordDenominatorZero(name, a, b) == Eq(Sub(F(name, b), F(name, a)), Zero)

\* What an iteration that leaves the frame t returns: the value val when
\* its criterion is met; otherwise the loop goes round again, however many
\* iterations it has made.
Return(t, met, val) ==
    [frame |-> t, res |-> IF met THEN Success(val) ELSE NoResult]

\* The frame after an iteration that found x with f(x) = fx: x replaces b
\* if f(a) * f(x) < 0 (right), else a.
ChordNarrow(s, x, fx, right) ==
    IF right
    THEN [s EXCEPT !.b = x, !.x = x, !.it = s.it + 1, !.err = <<abs(fx)>>]
    ELSE [s EXCEPT !.a = x, !.x = x, !.it = s.it + 1, !.err = <<abs(fx)>>]

\* The end of an iteration: |f(x)| < eps?
ChordReturn(eps, t, fx) == Return(t, Lt(abs(fx), eps), <<t.x, fx, t.it>>)

\* The iteration from x and f(x) on.
ChordUpdate(name, eps, s, x, fx) ==
    ChordReturn(eps, ChordNarrow(s, x, fx, Lt(Mul(F(name, s.a), fx), Zero)),
                fx)

\* The iteration from x on.
ChordEvaluate(name, eps, s, x) == ChordUpdate(name, eps, s, x, F(name, x))

\* The iteration proper, for a nonzero denominator.
ChordAdvance(name, eps, s) ==
    ChordEvaluate(name, eps, s, ChordX(name, s.a, s.b))

\* chord_method that returns the left endpoint as the root when the
\* denominator is zero.
ChordIterateUnguarded(name, eps, s) ==
    IF ChordDenominatorZero(name, s.a, s.b)
    THEN [frame |-> s, res |-> Success(<<s.a, F(name, s.a), s.it>>)]
    ELSE ChordAdvance(name, eps, s)

ChordIterate(name, eps, s) ==
    IF ChordDenominatorZero(name, s.a, s.b)
    THEN [frame |-> s, res |-> Failure("DivisionByZero")]
    ELSE ChordAdvance(name, eps, s)

(***************************************************************************)
(* solvers.equations.newton_method (specification 4.3): one iteration.     *)
(***************************************************************************)

NewtonDerivativeZero(name, x) == Eq(DF(name, x), Zero)

\* x_next = x - f(x) / df(x)
NewtonX(name, x) == Sub(x, Div(F(name, x), DF(name, x)))

\* The frame after an iteration of a one-point method that moved to xn.
Moved(s, xn) ==
    [s EXCEPT !.x = xn, !.it = s.it + 1, !.err = <<abs(Sub(xn, s.x))>>]

\* The end of an iteration: |x_next - x| < eps?
NewtonReturn(name, eps, t) ==
    Return(t, Lt(t.err[1], eps), <<t.x, F(name, t.x), t.it>>)

NewtonIterate(name, eps, s) ==
    IF NewtonDerivativeZero(name, s.x)
    THEN [frame |-> s, res |-> Failure("DivisionByZero")]
    ELSE NewtonReturn(name, eps, Moved(s, NewtonX(name, s.x)))

(***************************************************************************)
(* solvers.equations.simple_iteration_method (specification 4.4): one      *)
(* iteration.  The routine is not given f: the residual it returns is      *)
(* |phi(x_next) - x_next|.                                                 *)
(***************************************************************************)

\* |phi(x) - x|
SimpleResidual(name, x) == abs(Sub(Phi(name, x), x))

\* The end of an iteration: |x_next - x| < eps?
SimpleReturn(name, eps, t) ==
    Return(t, Lt(t.err[1], eps), <<t.x, SimpleResidual(name, t.x), t.it>>)

SimpleIterate(name, eps, s) ==
    SimpleReturn(name, eps, Moved(s, Phi(name, s.x)))

(***************************************************************************)
(* solvers.systems.system_simple_iteration (specification 4.5): one        *)
(* iteration.  Both components are computed from the same prior (x, y).    *)
(***************************************************************************)

\* The frame after an iteration that moved to (xn, yn) by the steps err.
SystemRecord(s, xn, yn, err) ==
    [s EXCEPT !.x = xn, !.y = yn, !.it = s.it + 1, !.err = err,
              !.errors = Append(s.errors, err)]

\* The frame after an iteration that moved to (xn, yn).
SystemMoved(s, xn, yn) ==
    SystemRecord(s, xn, yn, <<abs(Sub(xn, s.x)), abs(Sub(yn, s.y))>>)

\* The end of an iteration: both steps below eps?
SystemReturn(eps, t) ==
    Return(t, Lt(t.err[1], eps) /\ Lt(t.err[2], eps),
           <<t.x, t.y, t.it, t.errors>>)

SystemIterate(name, eps, s) ==
    SystemReturn(eps,
                 SystemMoved(s, Phi1(name, s.x, s.y), Phi2(name, s.x, s.y)))

(***************************************************************************)
(* gui/tabs.py: the state of the two tabs and of the handler that runs.    *)
(***************************************************************************)

VARIABLES
    eq_combo,          \* EquationTab.eq_combo.currentText()
    current_equation,  \* EquationTab.current_equation
    eq_text,           \* EquationTab.result_text: <<>> or <<x, fx, iterations>>
    figure,            \* EquationTab.figure: <<>> or <<a, b, equation, root_x>>
    sys_combo,         \* SystemTab.sys_combo.currentText()
    sys_text,          \* SystemTab.result_text: <<>> or <<x, y, iterations, steps>>
    pc,                \* where the running handler is; "idle" in the event loop
    req,               \* the handler's parsed inputs
    call,              \* the solver call the handler made
    sv,                \* the frame of the solver that runs
    result,            \* what the solver returned
    message_box,       \* the QMessageBox.critical texts the handler showed
    outcome            \* how the handler ended

vars == <<eq_combo, current_equation, eq_text, figure, sys_combo, sys_text,
          pc, req, call, sv, result, message_box, outcome>>

display == <<eq_text, figure, sys_text>>
widgets == <<eq_combo, current_equation, sys_combo>>

\* The items of method_combo (line 45), transliterated.
MethodChord == "Metod hord"
MethodNewton == "Metod Njutona"
MethodSimple == "Metod prostoj iteracii"
Methods == {MethodChord, MethodNewton, MethodSimple}

NoRequest ==
    [tab |-> "", parsed |-> FALSE, a |-> Zero, b |-> Zero, x0 |-> Zero,
     y0 |-> Zero, eps |-> Zero, is_valid |-> FALSE, msg |-> "", method |-> "",
     name |-> ""]
NoCall ==
    [fn |-> "", name |-> "", a |-> Zero, b |-> Zero, x0 |-> Zero, y0 |-> Zero,
     eps |-> Zero]

SolverPcs == {"chord", "newton", "simple", "system"}

\* A combo box filled by addItems shows its first item.
FirstItem(names) == names[1]

\* update_equation that keeps the equation the tab was built with.
update_equation_stale(combo_text) == FirstItem(EquationNames)

\* update_equation: current_equation becomes the combo box's current text.
update_equation(combo_text) == combo_text

\* A validation that lets every interval through.
IntervalNeverRejected(v) == FALSE

\* not is_valid (line 80)
IntervalRejected(v) == ~v.is_valid

\* The endpoints of line 93 swapped.
NewtonX0Swapped(name, a, b) ==
    IF Lt(abs(F(name, a)), abs(F(name, b))) THEN b ELSE a

\* x0 = a if abs(f(a)) < abs(f(b)) else b (line 93)
NewtonX0(name, a, b) ==
    IF Lt(abs(F(name, a)), abs(F(name, b))) THEN a ELSE b

\* x0 = (a + b) / 2 (line 97)
MidPoint(a, b) == Div(Add(a, b), Num(2))

\* A solver call: the arguments, the frame the loop starts from, and where
\* the caller goes on when the call returns.
ChordCall(name, a, b, eps) ==
    [c |-> [NoCall EXCEPT !.fn = "chord_method", !.name = name, !.a = a,
                          !.b = b, !.eps = eps],
     frame |-> [NoFrame EXCEPT !.a = a, !.b = b],
     loop |-> "chord", finish |-> "eq_finish"]

NewtonCall(name, x0, eps) ==
    [c |-> [NoCall EXCEPT !.fn = "newton_method", !.name = name, !.x0 = x0,
                          !.eps = eps],
     frame |-> [NoFrame EXCEPT !.x = x0],
     loop |-> "newton", finish |-> "eq_finish"]

SimpleCall(name, x0, eps) ==
    [c |-> [NoCall EXCEPT !.fn = "simple_iteration_method", !.name = name,
                          !.x0 = x0, !.eps = eps],
     frame |-> [NoFrame EXCEPT !.x = x0],
     loop |-> "simple", finish |-> "eq_finish"]

SystemCall(name, x0, y0, eps) ==
    [c |-> [NoCall EXCEPT !.fn = "system_simple_iteration", !.name = name,
                          !.x0 = x0, !.y0 = y0, !.eps = eps],
     frame |-> [NoFrame EXCEPT !.x = x0, !.y = y0],
     loop |-> "system", finish |-> "sys_finish"]

\* The entry of a solver: it rejects its tolerance or starts its loop.
SolverEntry(k) ==
    IF RejectsEps(k.c.eps)
    THEN [result |-> Failure("InvalidInput"), sv |-> NoFrame, pc |-> k.finish]
    ELSE [result |-> NoResult, sv |-> k.frame, pc |-> k.loop]

\* The text of lines 103 - 105: root, function value, iterations.
EquationText(val) == <<Format6f(val[1]), Format2e(val[2]), val[3]>>

\* plot_function(a, b, f, root_x)
plot_function(a, b, name, root_x) == <<a, b, name, root_x>>

\* Captions that count from zero.
StepLabelFromZero(i) == i

\* The caption number of the line of enumerate index i (line 182).
StepLabel(i) == i + 1

\* The lines of lines 181 - 182, one per entry of errors.
StepLines(errors) ==
    [k \in 1..Len(errors) |->
        <<StepLabel(k - 1), Format2e(errors[k][1]), Format2e(errors[k][2])>>]

\* The text of lines 174 - 182.
SystemText(val) ==
    <<Format6f(val[1]), Format6f(val[2]), val[3], StepLines(val[4])>>

\* __init__: init_ui fills the combo boxes, current_equation is set to
\* None (line 18) and then by update_equation (line 21).
Init ==
    /\ eq_combo = FirstItem(EquationNames)
    /\ current_equation = update_equation(FirstItem(EquationNames))
    /\ eq_text = <<>>
    /\ figure = <<>>
    /\ sys_combo = FirstItem(SystemNames)
    /\ sys_text = <<>>
    /\ pc = "idle"
    /\ req = NoRequest
    /\ call = NoCall
    /\ sv = NoFrame
    /\ result = NoResult
    /\ message_box = <<>>
    /\ outcome = ""

\* The user picks another equation: currentIndexChanged runs update_equation.
SelectEquation(i) ==
    /\ pc = "idle"
    /\ EquationNames[i] # eq_combo
    /\ eq_combo' = EquationNames[i]
    /\ current_equation' = update_equation(EquationNames[i])
    /\ UNCHANGED <<display, sys_combo, pc, req, call, sv, result,
                   message_box, outcome>>

\* The user picks another system: no slot is connected.
SelectSystem(i) ==
    /\ pc = "idle"
    /\ SystemNames[i] # sys_combo
    /\ sys_combo' = SystemNames[i]
    /\ UNCHANGED <<display, eq_combo, current_equation, pc, req, call, sv,
                   result, message_box, outcome>>

\* The handler ends after showing msg.
ShowError(msg) ==
    /\ message_box' = Append(message_box, msg)
    /\ outcome' = "error"
    /\ pc' = "returned"
    /\ UNCHANGED <<call, sv, result>>

\* The call c is under way: the solver has passed its entry.
Enter(c, entry) ==
    /\ call' = c
    /\ result' = entry.result
    /\ sv' = entry.sv
    /\ pc' = entry.pc
    /\ UNCHANGED <<message_box, outcome>>

\* A solver is called.
CallSolver(k) == Enter(k.c, SolverEntry(k))

\* The call of the method selected (lines 85 - 98).
MethodCall(method, name, a, b, eps) ==
    CASE method = MethodChord -> ChordCall(name, a, b, eps)
      [] method = MethodNewton -> NewtonCall(name, NewtonX0(name, a, b), eps)
      [] method = MethodSimple -> SimpleCall(name, MidPoint(a, b), eps)

\* solve_equation, lines 79 - 98, with the verdict v of validate_interval.
SolveValidated(a, b, eps, name, method, v) ==
    /\ req' = [NoRequest EXCEPT !.tab = "eq", !.parsed = TRUE, !.a = a,
                                !.b = b, !.eps = eps, !.name = name,
                                !.is_valid = v.is_valid, !.msg = v.msg,
                                !.method = IF IntervalRejected(v) THEN ""
                                           ELSE method]
    /\ IF IntervalRejected(v) THEN ShowError(v.msg)
       ELSE CallSolver(MethodCall(method, name, a, b, eps))

\* solve_equation, lines 70 - 98, with what float() made of the three
\* texts.
SolveParsed(pa, pb, pe, name, method) ==
    IF ~(pa.ok /\ pb.ok /\ pe.ok)
    THEN /\ req' = [NoRequest EXCEPT !.tab = "eq"]
         /\ ShowError(MsgBadInput)
    ELSE SolveValidated(pa.v, pb.v, pe.v, name, method,
                        validate_interval(pa.v, pb.v, name))

\* solve_equation, lines 69 - 98, with some texts in the fields and some
\* method selected: parse, validate, choose the method.
SolveEquation ==
    /\ pc = "idle"
    /\ UNCHANGED <<display, widgets>>
    /\ \E aT \in PointTexts, bT \in PointTexts, eT \in EpsTexts,
          method \in Methods :
          SolveParsed(float[aT], float[bT], float[eT], current_equation,
                      method)

\* One iteration of the solver that runs, as far as the model follows it.
Iterate(step, finish) ==
    /\ sv.it < MaxIter
    /\ sv' = step.frame
    /\ result' = step.res
    /\ pc' = IF step.res = NoResult THEN pc ELSE finish
    /\ UNCHANGED <<display, widgets, req, call, message_box, outcome>>

ChordStep ==
    /\ pc = "chord"
    /\ Iterate(ChordIterate(call.name, call.eps, sv), "eq_finish")

NewtonStep ==
    /\ pc = "newton"
    /\ Iterate(NewtonIterate(call.name, call.eps, sv), "eq_finish")

SimpleStep ==
    /\ pc = "simple"
    /\ Iterate(SimpleIterate(call.name, call.eps, sv), "eq_finish")

SystemStep ==
    /\ pc = "system"
    /\ Iterate(SystemIterate(call.name, call.eps, sv), "sys_finish")

\* solve_equation, lines 100 - 106.  A numeric triple is shown and plotted.
\* A failure value is either falsy, and the handler returns, or truthy, and
\* unpacking it raises.
EquationFinish ==
    /\ pc = "eq_finish"
    /\ pc' = "returned"
    /\ IF result.kind = "ok"
       THEN /\ eq_text' = EquationText(result.val)
            /\ figure' = plot_function(req.a, req.b, req.name, result.val[1])
            /\ outcome' = "displayed"
       ELSE /\ \E truthy \in BOOLEAN :
                 outcome' = IF truthy THEN "raised" ELSE "silent"
            /\ UNCHANGED <<eq_text, figure>>
    /\ UNCHANGED <<sys_text, widgets, req, call, sv, result, message_box>>

\* solve_system, lines 157 - 171, with what float() made of the three
\* texts.
SolveSystemParsed(px, py, pe, system_name) ==
    IF ~(px.ok /\ py.ok /\ pe.ok)
    THEN /\ req' = [NoRequest EXCEPT !.tab = "sys"]
         /\ ShowError(MsgBadInput)
    ELSE /\ req' = [NoRequest EXCEPT !.tab = "sys", !.parsed = TRUE,
                                     !.x0 = px.v, !.y0 = py.v, !.eps = pe.v,
                                     !.name = system_name]
         /\ CallSolver(SystemCall(system_name, px.v, py.v, pe.v))

\* solve_system, lines 156 - 171, with some texts in the fields: parse,
\* look the system up, call the solver.
SolveSystem ==
    /\ pc = "idle"
    /\ UNCHANGED <<display, widgets>>
    /\ \E xT \in GuessTexts, yT \in GuessTexts, eT \in EpsTexts :
          SolveSystemParsed(float[xT], float[yT], float[eT], sys_combo)

\* solve_system, lines 169 - 184.  Unpacking a failure value raises.
SystemFinish ==
    /\ pc = "sys_finish"
    /\ pc' = "returned"
    /\ IF result.kind = "ok"
       THEN /\ sys_text' = SystemText(result.val)
            /\ outcome' = "displayed"
       ELSE /\ outcome' = "raised"
            /\ UNCHANGED sys_text
    /\ UNCHANGED <<eq_text, figure, widgets, req, call, sv, result, message_box>>

\* The handler has returned, or its exception was reported by the event
\* loop: its locals are gone and the tab takes the next event.
ReturnToEventLoop ==
    /\ pc = "returned"
    /\ pc' = "idle"
    /\ req' = NoRequest
    /\ call' = NoCall
    /\ sv' = NoFrame
    /\ result' = NoResult
    /\ message_box' = <<>>
    /\ outcome' = ""
    /\ UNCHANGED <<display, widgets>>

\* The events of EquationTab.
EquationNext ==
    \/ \E i \in 1..Len(EquationNames) : SelectEquation(i)
    \/ SolveEquation
    \/ ChordStep
    \/ NewtonStep
    \/ SimpleStep
    \/ EquationFinish
    \/ ReturnToEventLoop

\* The events of SystemTab.
SystemNext ==
    \/ \E i \in 1..Len(SystemNames) : SelectSystem(i)
    \/ SolveSystem
    \/ SystemStep
    \/ SystemFinish
    \/ ReturnToEventLoop

Next == EquationNext \/ SystemNext

\* The window with its two tabs.
Spec == Init /\ [][Next]_vars

\* The two tabs share no state: each is also taken on its own.
EquationSpec == Init /\ [][EquationNext]_vars
SystemSpec == Init /\ [][SystemNext]_vars

(***************************************************************************)
(* The solvers on their own: a call with any arguments, run to its return. *)
(***************************************************************************)

\* The calls on the equations names and the systems systems with
\* arguments taken from points, guesses and tolerances.
CallsOn(names, systems, points, guesses, tolerances) ==
    {ChordCall(n, a, b, e) :
        n \in names, a \in points, b \in points, e \in tolerances}
    \cup {NewtonCall(n, x, e) : n \in names, x \in points, e \in tolerances}
    \cup {SimpleCall(n, x, e) : n \in names, x \in points, e \in tolerances}
    \cup {SystemCall(n, x, y, e) :
             n \in systems, x \in guesses, y \in guesses, e \in tolerances}

SolverCalls ==
    CallsOn({EquationNames[i] : i \in 1..Len(EquationNames)},
            {SystemNames[i] : i \in 1..Len(SystemNames)},
            Parsed(PointTexts), Parsed(GuessTexts), Parsed(EpsTexts))

\* The call c has passed the entry of its solver.
Entered(c, entry) ==
    /\ call = c
    /\ result = entry.result
    /\ sv = entry.sv
    /\ pc = entry.pc

SolverInit ==
    /\ eq_combo = FirstItem(EquationNames)
    /\ current_equation = update_equation(FirstItem(EquationNames))
    /\ eq_text = <<>>
    /\ figure = <<>>
    /\ sys_combo = FirstItem(SystemNames)
    /\ sys_text = <<>>
    /\ req = NoRequest
    /\ message_box = <<>>
    /\ outcome = ""
    /\ \E k \in SolverCalls : Entered(k.c, SolverEntry(k))

SolverNext == ChordStep \/ NewtonStep \/ SimpleStep \/ SystemStep

SolverSpec == SolverInit /\ [][SolverNext]_vars

(***************************************************************************)
(* The claims.                                                             *)
(***************************************************************************)

EquationSolvers ==
    {"chord_method", "newton_method", "simple_iteration_method"}

\* The handler that starts in this step is solve_equation with three
\* numbers typed in.
EquationRequestStarts == pc = "idle" /\ req'.tab = "eq" /\ req'.parsed

\* f(a) * f(b) of the equation called name.
SignProduct(name, a, b) == Mul(F(name, a), F(name, b))

\* C1: when validate_interval returns is_valid = false, solve_equation calls
\* no solver whatever the method, shows the validation message, and leaves
\* the result text and the plot as they were.
C1_RejectedIntervalIsNotSolved ==
    [][(EquationRequestStarts /\ ~req'.is_valid)
          => /\ call' = NoCall
             /\ result' = NoResult
             /\ sv' = NoFrame
             /\ pc' = "returned"
             /\ message_box' = <<req'.msg>>
             /\ req'.msg \in {MsgOrder, MsgNoSignChange}
             /\ eq_text' = eq_text
             /\ figure' = figure]_vars

\* An interval without a sign change is turned down while an earlier root is
\* on display.
C1_Witness ==
    /\ pc = "returned"
    /\ req.tab = "eq" /\ req.parsed /\ ~req.is_valid
    /\ Lt(req.a, req.b)
    /\ message_box = <<MsgNoSignChange>>
    /\ call = NoCall
    /\ eq_text # <<>>
    /\ figure # <<>>

\* C2: validate_interval(a, b, f) is valid exactly when a < b and
\* f(a) * f(b) <= 0, on every interval the handler hands it.
C2_ValidExactlyOnBracket ==
    (req.tab = "eq" /\ req.parsed)
       => (req.is_valid
              <=> (/\ Lt(req.a, req.b)
                   /\ Le(SignProduct(req.name, req.a, req.b), Zero)))

\* C8: the initial guess given to newton_method is an endpoint of the
\* validated interval: a when |f(a)| < |f(b)|, b when |f(b)| < |f(a)|.
C8_NewtonStartsAtSmallerEndpoint ==
    call.fn = "newton_method"
       => /\ req.is_valid
          /\ call.x0 \in {req.a, req.b}
          /\ Lt(abs(F(req.name, req.a)), abs(F(req.name, req.b)))
                => call.x0 = req.a
          /\ Lt(abs(F(req.name, req.b)), abs(F(req.name, req.a)))
                => call.x0 = req.b

\* Newton's method is started at the left endpoint, where |f| is smaller.
C8_Witness ==
    /\ call.fn = "newton_method"
    /\ Lt(abs(F(req.name, req.a)), abs(F(req.name, req.b)))
    /\ call.x0 = req.a
    /\ req.a # req.b
    /\ pc = "newton"

\* C10: current_equation is the equation selected in the combo box and a key
\* of the registry, in every state after construction; every solve validates
\* and solves that equation.
C10_CurrentEquationIsSelected ==
    /\ current_equation = eq_combo
    /\ \E i \in 1..Len(EquationNames) : current_equation = EquationNames[i]
    /\ (req.tab = "eq" /\ req.parsed) => req.name = eq_combo
    /\ call.fn \in EquationSolvers => call.name = eq_combo

\* After the selection moved to the second equation, a solve runs on it.
C10_Witness ==
    /\ eq_combo = EquationNames[2]
    /\ eq_text # <<>>
    /\ figure[3] = EquationNames[1]
    /\ call.fn = "chord_method"
    /\ call.name = EquationNames[2]
    /\ pc = "chord"

\* Whether the criterion of the solver that ran was met by its last
\* iteration: every quantity it compared with eps was below eps.
CriterionMet == \A k \in 1..Len(sv.err) : Lt(sv.err[k], call.eps)

\* C3: a solver failure reaches the user as a message; no failure is shown
\* as a root or a solution; the handler never ends with neither a result
\* nor an error on display.
C3_FailureIsShown ==
    pc = "returned"
       => /\ result.kind \in FailureKinds
               => (message_box # <<>> /\ outcome # "displayed")
          /\ outcome = "displayed" \/ message_box # <<>>

\* The iteration the solver that runs makes next.
NextIteration ==
    CASE pc = "chord" -> ChordIterate(call.name, call.eps, sv)
      [] pc = "newton" -> NewtonIterate(call.name, call.eps, sv)
      [] pc = "simple" -> SimpleIterate(call.name, call.eps, sv)
      [] pc = "system" -> SystemIterate(call.name, call.eps, sv)

\* Whether the iteration step returns nothing and leaves the bracket and
\* the iterate of the frame s as they are.  Every later iteration then does
\* the same: the call never returns.
Idles(s, step) ==
    /\ step.res = NoResult
    /\ <<step.frame.a, step.frame.b, step.frame.x, step.frame.y>>
          = <<s.a, s.b, s.x, s.y>>

\* The solver that runs is in a loop it cannot leave.
RunsForEver == pc \in SolverPcs /\ Idles(sv, NextIteration)

\* C4: every solver call terminates: each of the four loops is bounded by
\* the iteration cap (taken as MaxIter): while a solver runs it has
\* iterations left and is not in a loop it cannot leave, every step
\* completes one more iteration or returns, a call that used the cap up
\* without meeting its criterion returns NonConvergence, and a numeric
\* result is returned only when the criterion was met.
C4_SolversStopWithinCap ==
    /\ [](/\ sv.it <= MaxIter
          /\ pc \in SolverPcs
                => /\ sv.it < MaxIter
                   /\ result = NoResult
                   /\ ~RunsForEver
          /\ pc \in {"eq_finish", "sys_finish"}
                => /\ result.kind \in {"ok"} \cup FailureKinds
                   /\ result.kind = "NonConvergence"
                         <=> (sv.it = MaxIter /\ ~CriterionMet)
                   /\ result.kind = "ok"
                         <=> (sv.it >= 1 /\ CriterionMet))
    /\ [][(pc \in SolverPcs)
             => ((pc' = pc /\ sv'.it = sv.it + 1)
                    \/ pc' \in {"eq_finish", "sys_finish"})]_vars

\* C5: an iteration of the chord method that finds f(b) - f(a) = 0, and an
\* iteration of Newton's method that finds df(x) = 0, returns the
\* DivisionByZero failure: no numeric triple, and not NonConvergence.
C5_ZeroDenominatorFails ==
    [][(\/ pc = "chord" /\ Eq(Sub(F(call.name, sv.b), F(call.name, sv.a)), Zero)
        \/ pc = "newton" /\ Eq(DF(call.name, sv.x), Zero))
          => /\ result' = Failure("DivisionByZero")
             /\ result'.kind \notin {"ok", "NonConvergence"}
             /\ result'.val = <<>>
             /\ pc' = "eq_finish"
             /\ sv' = sv]_vars

\* The chord method was called on an interval with a < b and
\* f(a) = f(b) = 0.
C5_Witness ==
    /\ pc = "eq_finish"
    /\ call.fn = "chord_method"
    /\ Lt(call.a, call.b)
    /\ Eq(F(call.name, call.a), Zero)
    /\ Eq(F(call.name, call.b), Zero)
    /\ result = Failure("DivisionByZero")

\* C6: a successful system_simple_iteration result has one error entry per
\* iteration, appended as the iterations complete; the last entry, and no
\* earlier one, has both components below eps; solve_system lists the
\* entries as steps 1..iterations.
C6_ErrorHistoryPerIteration ==
    /\ [](call.fn = "system_simple_iteration"
             => /\ Len(sv.errors) = sv.it
                /\ result.kind = "ok"
                      => LET iterations == result.val[3]
                             errors == result.val[4]
                         IN  /\ iterations = sv.it
                             /\ errors = sv.errors
                             /\ Len(errors) = iterations
                             /\ iterations >= 1
                             /\ Lt(errors[iterations][1], call.eps)
                             /\ Lt(errors[iterations][2], call.eps)
                             /\ \A k \in 1..(iterations - 1) :
                                   ~(Lt(errors[k][1], call.eps)
                                        /\ Lt(errors[k][2], call.eps))
                             /\ pc = "returned"
                                   => /\ sys_text[3] = iterations
                                      /\ Len(sys_text[4]) = iterations
                                      /\ \A k \in 1..iterations :
                                            sys_text[4][k]
                                               = <<k, Format2e(errors[k][1]),
                                                   Format2e(errors[k][2])>>)
    /\ [][(pc = "system" /\ sv'.it = sv.it + 1)
             => sv'.errors = Append(sv.errors,
                                    <<abs(Sub(sv'.x, sv.x)),
                                      abs(Sub(sv'.y, sv.y))>>)]_vars

\* A system solved in three iterations, the second of which had one
\* component below eps and the other not.
C6_Witness ==
    /\ pc = "returned"
    /\ call.fn = "system_simple_iteration"
    /\ result.kind = "ok"
    /\ result.val[3] = 3
    /\ Len(sys_text[4]) = 3
    /\ sys_text[4][3][1] = 3
    /\ Lt(result.val[4][2][2], call.eps)
    /\ ~Lt(result.val[4][2][1], call.eps)

\* C7: a request with eps <= 0, on either tab, runs no iteration, displays
\* no numeric result and ends in a failure that is reported.
C7_NonPositiveEpsIsReported ==
    (pc = "returned" /\ req.parsed /\ Le(req.eps, Zero))
       => /\ sv.it = 0
          /\ outcome # "displayed"
          /\ message_box # <<>>

\* C9: the chord method keeps its bracket: started on an interval with
\* a < b and f(a) * f(b) <= 0, after every iteration f(a) * f(b) <= 0 for
\* the pair it keeps, and the x of the iteration lies in the bracket the
\* iteration started from.
C9_ChordKeepsBracket ==
    [][(/\ pc = "chord"
        /\ sv'.it = sv.it + 1
        /\ Lt(call.a, call.b)
        /\ Le(SignProduct(call.name, call.a, call.b), Zero))
          => /\ Le(SignProduct(call.name, sv'.a, sv'.b), Zero)
             /\ Le(sv.a, sv'.x)
             /\ Le(sv'.x, sv.b)]_vars
====
